---- MODULE Spec2Model ----
(***************************************************************************)
(* flashlight: client/server chained proxy.                                *)
(*                                                                         *)
(* Three parts of flashlight.go are modelled:                              *)
(*   - the interception tunnel (handleClientMITM, respondBadGateway, pipe) *)
(*     as one record per tunnel in `tun`, with the goroutines' positions;  *)
(*   - the certificate bootstrap (main, initCerts, certificateFor) over a  *)
(*     persistent disk, in `proc` / `disk`;                                *)
(*   - the disguise protocol's two rewrites, applied to the request `rq`.  *)
(* Each part has its own specification (SpecTunnel for one tunnel,         *)
(* SpecTunnels for two tunnels in one process, SpecCerts, SpecRewrite);    *)
(* the variables of the other parts stay at their idle value.  SpecIssue   *)
(* is SpecCerts in an environment where the clock's nanoseconds and the    *)
(* -addr host vary.                                                        *)
(***************************************************************************)
EXTENDS Integers, Sequences, FiniteSets, TLC

VARIABLES
    tun,      \* tunnel id -> the tunnel's state (connections, goroutines, peers)
    crashed,  \* TRUE once an unrecovered panic has terminated the process
    proc,     \* the process running main/initCerts: globals and position
    disk,     \* the three persisted files and the user trust store
    now,      \* wall clock, in months
    rq        \* the request the disguise protocol is applied to, and its stage

vars == <<tun, crashed, proc, disk, now, rq>>

(***************************************************************************)
(* Bounds                                                                  *)
(***************************************************************************)
\* items (requests or opaque chunks) the local client sends on one tunnel
MaxClientItems == 2
\* chunks the upstream peer sends on one tunnel
MaxServerItems == 1
\* the same two budgets for the second tunnel, where two tunnels run side by
\* side (SpecTunnels): its peers stay silent, and may close or reset
PairClientItems == 0
PairServerItems == 0

Tunnels == {"t1", "t2"}

\* what the local client can put on the decrypted connection: a well-formed
\* HTTP request, or bytes that are not one (an upgraded stream, garbage)
ItemKinds == {"req", "raw"}

\* pipe() is called once per decoded request, so at most once per client item
Pipes == 1..MaxClientItems

(***************************************************************************)
(* Interception tunnel: state                                              *)
(***************************************************************************)
NoItem == [id |-> 0, kind |-> "none"]

\* The state of a tunnel before its CONNECT request has been intercepted.
\* cmax and smax are what its two peers may send; arrives says whether a
\* CONNECT request for this tunnel ever reaches handleClient.
TunnelInit(cmax, smax, arrives) ==
    [ arrives    |-> arrives,
      cmax       |-> cmax,
      smax       |-> smax,
      hpc        |-> "idle",     \* handleClientMITM: idle, dial, respWrite, respClose, spawn, done
      dpc        |-> "none",     \* the decode goroutine (lines 200-225)
      dreq       |-> NoItem,     \* the request the decode loop holds
      connIn     |-> "none",     \* none, open, closed (by Close()), killed (process exit)
      connOut    |-> "none",     \* none, nil (dial failed), open, broken (peer reset), closed, killed
      apc        |-> [k \in Pipes |-> "none"],   \* io.Copy(connOut, connIn) goroutines
      abuf       |-> [k \in Pipes |-> NoItem],
      bpc        |-> [k \in Pipes |-> "none"],   \* io.Copy(connIn, connOut) goroutines
      bbuf       |-> [k \in Pipes |-> 0],
      npipes     |-> 0,          \* calls of pipe() so far
      cq         |-> << >>,      \* sent by the local client, not yet read
      csent      |-> 0,
      ckinds     |-> << >>,      \* the kind of every item the client has sent, by id
      clientEOF  |-> FALSE,      \* the local client has closed its side
      sq         |-> << >>,      \* sent by the upstream peer, not yet read
      ssent      |-> 0,
      serverEOF  |-> FALSE,      \* the upstream peer has closed its side
      upstream   |-> << >>,      \* what has been written to connOut, in order
      localOut   |-> << >>,      \* what has been written to connIn, in order
      closesIn   |-> 0,          \* calls of connIn.Close()
      closesOut  |-> 0,          \* calls of connOut.Close()
      dialFailed |-> FALSE,
      failed     |-> FALSE,      \* respondBadGateway has completed for this tunnel
      opAfterFail |-> FALSE,     \* a connection was used after that
      dend       |-> "none",     \* how serverConn.Read() last failed: eof, err
      wrote502   |-> FALSE,      \* connIn.Write of the 502 line has been called
      wfail      |-> FALSE,      \* req.Write(connOut) has returned an error
      relayAfterWfail |-> FALSE  \* pipe() was called after that
    ]

Upd(t, r) == tun' = [tun EXCEPT ![t] = r]

Live(t) == ~crashed

\* A panic in a goroutine nobody recovers ends the process: every tunnel's
\* connections are torn down by the operating system and every goroutine stops.
Killed(r) ==
    [r EXCEPT !.connIn  = IF @ = "open" THEN "killed" ELSE @,
              !.connOut = IF @ \in {"open", "broken"} THEN "killed" ELSE @]

Panic ==
    /\ crashed' = TRUE
    /\ tun' = [u \in Tunnels |-> Killed(tun[u])]

\* connIn.Write(x): delivered when the connection is open, an error otherwise
\* (every caller ignores the error).
WriteIn(r, x) ==
    [r EXCEPT !.localOut = IF r.connIn = "open" THEN Append(@, x) ELSE @,
              !.wrote502 = @ \/ (x = "502")]

\* connIn.Close()
CloseIn(r) ==
    [r EXCEPT !.connIn = IF @ = "open" THEN "closed" ELSE @,
              !.closesIn = @ + 1]

\* connOut.Close() on a connection that exists
CloseOut(r) ==
    [r EXCEPT !.connOut = IF @ \in {"open", "broken"} THEN "closed" ELSE @,
              !.closesOut = @ + 1]

\* A use of a connection by the tunnel's own code, recorded when it happens
\* after the tunnel has already reported failure.
Used(r) == [r EXCEPT !.opAfterFail = @ \/ r.failed]

(***************************************************************************)
(* Interception tunnel: handleClientMITM                                   *)
(***************************************************************************)
\* mitmProxy.InterceptWith hands the decrypted connection to handleClientMITM.
Accept(t) ==
    /\ Live(t)
    /\ tun[t].hpc = "idle"
    /\ tun[t].arrives
    /\ Upd(t, [tun[t] EXCEPT !.hpc = "dial", !.connIn = "open"])
    /\ UNCHANGED <<crashed, proc, disk, now, rq>>

\* connOut, err := cp.dial(addr); on an error connOut is nil
Dial(t) ==
    /\ Live(t)
    /\ tun[t].hpc = "dial"
    /\ \E ok \in BOOLEAN :
         Upd(t, [tun[t] EXCEPT !.connOut = IF ok THEN "open" ELSE "nil",
                               !.dialFailed = ~ok,
                               !.hpc = IF ok THEN "spawn" ELSE "respWrite"])
    /\ UNCHANGED <<crashed, proc, disk, now, rq>>

\* respondBadGateway, first statement: connIn.Write("HTTP/1.1 502 Bad Gateway: ...")
RespondWrite(t) ==
    /\ Live(t)
    /\ tun[t].hpc = "respWrite"
    /\ Upd(t, [WriteIn(tun[t], "502") EXCEPT !.hpc = "respClose"])
    /\ UNCHANGED <<crashed, proc, disk, now, rq>>

\* respondBadGateway, second statement: connIn.Close().  handleClientMITM does
\* not return after it: control falls through to line 199.
RespondClose(t) ==
    /\ Live(t)
    /\ tun[t].hpc = "respClose"
    /\ Upd(t, [CloseIn(tun[t]) EXCEPT !.hpc = "spawn", !.failed = TRUE])
    /\ UNCHANGED <<crashed, proc, disk, now, rq>>

\* serverConn := httputil.NewServerConn(connIn, nil); go func() { ... }()
Spawn(t) ==
    /\ Live(t)
    /\ tun[t].hpc = "spawn"
    /\ Upd(t, [tun[t] EXCEPT !.hpc = "done", !.dpc = "read"])
    /\ UNCHANGED <<crashed, proc, disk, now, rq>>

(***************************************************************************)
(* The decode goroutine: for { serverConn.Read() ... pipe(connIn, connOut) }*)
(***************************************************************************)
\* req, err := serverConn.Read().  A read of a connection this process has
\* closed fails; bytes that are no HTTP request fail to parse; a peer that
\* closed with nothing pending gives io.EOF; otherwise the read blocks.
\* On success lines 213-217 set the URL and rewrite the request.
DecRead(t) ==
    /\ Live(t)
    /\ tun[t].dpc = "read"
    /\ LET r == Used(tun[t]) IN
       IF r.connIn # "open"
         THEN Upd(t, [r EXCEPT !.dpc = "errCloseOut", !.dend = "err"])
       ELSE IF r.cq # << >>
         THEN IF Head(r.cq).kind = "req"
                THEN Upd(t, [r EXCEPT !.cq = Tail(@), !.dreq = Head(r.cq),
                                      !.dpc = "write1"])
                ELSE Upd(t, [r EXCEPT !.cq = Tail(@), !.dpc = "errCloseOut",
                                      !.dend = "err"])
       ELSE /\ r.clientEOF
            /\ Upd(t, [r EXCEPT !.dpc = "done", !.dend = "eof"])
    /\ UNCHANGED <<crashed, proc, disk, now, rq>>

\* err != io.EOF: connOut.Close().  connOut is nil when the dial failed, and
\* calling a method of a nil connection panics.
DecErrCloseOut(t) ==
    /\ Live(t)
    /\ tun[t].dpc = "errCloseOut"
    /\ IF tun[t].connOut = "nil"
         THEN /\ Panic
         ELSE /\ Upd(t, [CloseOut(Used(tun[t])) EXCEPT !.dpc = "errWrite"])
              /\ UNCHANGED crashed
    /\ UNCHANGED <<proc, disk, now, rq>>

\* respondBadGateway(connIn, msg) from the decode loop: Write, then Close
DecErrWrite(t) ==
    /\ Live(t)
    /\ tun[t].dpc = "errWrite"
    /\ Upd(t, [WriteIn(Used(tun[t]), "502") EXCEPT !.dpc = "errCloseIn"])
    /\ UNCHANGED <<crashed, proc, disk, now, rq>>

DecErrCloseIn(t) ==
    /\ Live(t)
    /\ tun[t].dpc = "errCloseIn"
    /\ Upd(t, [CloseIn(Used(tun[t])) EXCEPT !.dpc = "done", !.failed = TRUE])
    /\ UNCHANGED <<crashed, proc, disk, now, rq>>

\* pipe(connIn, connOut): two goroutines are started and pipe returns.
StartPipe(r) ==
    LET k == r.npipes + 1 IN
    [r EXCEPT !.npipes = k, !.apc[k] = "read", !.bpc[k] = "read"]

\* req.Write(connOut), the request line and headers.  The error is ignored:
\* after a failed write control still reaches pipe().
DecWrite1_relayEarly(t) ==
    /\ Live(t)
    /\ tun[t].dpc = "write1"
    /\ tun[t].connOut # "nil"
    /\ LET r == StartPipe(tun[t]) IN
       IF r.connOut = "open"
         THEN Upd(t, [r EXCEPT !.upstream = Append(@, [w |-> "rwHead", id |-> r.dreq.id]),
                               !.dpc = "write2"])
         ELSE Upd(t, [r EXCEPT !.dpc = "read", !.wfail = TRUE,
                               !.relayAfterWfail = TRUE])
    /\ UNCHANGED <<crashed, proc, disk, now, rq>>

DecWrite1(t) ==
    /\ Live(t)
    /\ tun[t].dpc = "write1"
    /\ IF tun[t].connOut = "nil"
         THEN Panic
         ELSE /\ LET r == Used(tun[t]) IN
                 IF r.connOut = "open"
                   THEN Upd(t, [r EXCEPT !.upstream = Append(@, [w |-> "rwHead", id |-> r.dreq.id]),
                                         !.dpc = "write2"])
                   ELSE Upd(t, [r EXCEPT !.dpc = "pipe", !.wfail = TRUE])
              /\ UNCHANGED crashed
    /\ UNCHANGED <<proc, disk, now, rq>>

\* req.Write(connOut), the rest of the request
DecWrite2(t) ==
    /\ Live(t)
    /\ tun[t].dpc = "write2"
    /\ LET r == Used(tun[t]) IN
       IF r.connOut = "open"
         THEN Upd(t, [r EXCEPT !.upstream = Append(@, [w |-> "rwTail", id |-> r.dreq.id]),
                               !.dpc = "pipe"])
         ELSE Upd(t, [r EXCEPT !.dpc = "pipe", !.wfail = TRUE])
    /\ UNCHANGED <<crashed, proc, disk, now, rq>>

\* pipe(connIn, connOut), then the for loop goes back to serverConn.Read()
DecPipe(t) ==
    /\ Live(t)
    /\ tun[t].dpc = "pipe"
    /\ Upd(t, [StartPipe(tun[t]) EXCEPT !.dpc = "read",
                                        !.relayAfterWfail = @ \/ tun[t].wfail])
    /\ UNCHANGED <<crashed, proc, disk, now, rq>>

(***************************************************************************)
(* pipe's goroutines                                                       *)
(***************************************************************************)
\* io.Copy(connOut, connIn): read from the local connection
CopyInRead(t, k) ==
    /\ Live(t)
    /\ tun[t].apc[k] = "read"
    /\ LET r == Used(tun[t]) IN
       IF r.connIn # "open"
         THEN Upd(t, [r EXCEPT !.apc[k] = "close"])
       ELSE IF r.cq # << >>
         THEN Upd(t, [r EXCEPT !.cq = Tail(@), !.abuf[k] = Head(r.cq),
                               !.apc[k] = "write"])
       ELSE /\ r.clientEOF
            /\ Upd(t, [r EXCEPT !.apc[k] = "close"])
    /\ UNCHANGED <<crashed, proc, disk, now, rq>>

\* io.Copy(connOut, connIn): write what was read to the upstream connection
CopyInWrite(t, k) ==
    /\ Live(t)
    /\ tun[t].apc[k] = "write"
    /\ LET r == Used(tun[t]) IN
       IF r.connOut = "open"
         THEN Upd(t, [r EXCEPT !.upstream = Append(@, [w |-> "raw", id |-> r.abuf[k].id]),
                               !.abuf[k] = NoItem, !.apc[k] = "read"])
         ELSE Upd(t, [r EXCEPT !.abuf[k] = NoItem, !.apc[k] = "close"])
    /\ UNCHANGED <<crashed, proc, disk, now, rq>>

\* defer connIn.Close() of the goroutine that copies from connIn
CopyInClose(t, k) ==
    /\ Live(t)
    /\ tun[t].apc[k] = "close"
    /\ Upd(t, [CloseIn(Used(tun[t])) EXCEPT !.apc[k] = "done"])
    /\ UNCHANGED <<crashed, proc, disk, now, rq>>

\* io.Copy(connIn, connOut): read from the upstream connection
CopyOutRead(t, k) ==
    /\ Live(t)
    /\ tun[t].bpc[k] = "read"
    /\ LET r == Used(tun[t]) IN
       IF r.connOut # "open"
         THEN Upd(t, [r EXCEPT !.bpc[k] = "close"])
       ELSE IF r.sq # << >>
         THEN Upd(t, [r EXCEPT !.sq = Tail(@), !.bbuf[k] = Head(r.sq),
                               !.bpc[k] = "write"])
       ELSE /\ r.serverEOF
            /\ Upd(t, [r EXCEPT !.bpc[k] = "close"])
    /\ UNCHANGED <<crashed, proc, disk, now, rq>>

\* io.Copy(connIn, connOut): write what was read to the local connection
CopyOutWrite(t, k) ==
    /\ Live(t)
    /\ tun[t].bpc[k] = "write"
    /\ LET r == Used(tun[t]) IN
       IF r.connIn = "open"
         THEN Upd(t, [WriteIn(r, "data") EXCEPT !.bbuf[k] = 0, !.bpc[k] = "read"])
         ELSE Upd(t, [r EXCEPT !.bbuf[k] = 0, !.bpc[k] = "close"])
    /\ UNCHANGED <<crashed, proc, disk, now, rq>>

\* defer connOut.Close() of the goroutine that copies from connOut
CopyOutClose(t, k) ==
    /\ Live(t)
    /\ tun[t].bpc[k] = "close"
    /\ Upd(t, [CloseOut(Used(tun[t])) EXCEPT !.bpc[k] = "done"])
    /\ UNCHANGED <<crashed, proc, disk, now, rq>>

(***************************************************************************)
(* The two peers of a tunnel                                               *)
(***************************************************************************)
ClientSend(t, kind) ==
    /\ Live(t)
    /\ tun[t].connIn = "open"
    /\ ~tun[t].clientEOF
    /\ tun[t].csent < tun[t].cmax
    /\ Upd(t, [tun[t] EXCEPT !.csent = @ + 1,
                             !.ckinds = Append(@, kind),
                             !.cq = Append(@, [id |-> tun[t].csent + 1, kind |-> kind])])
    /\ UNCHANGED <<crashed, proc, disk, now, rq>>

ClientClose(t) ==
    /\ Live(t)
    /\ tun[t].connIn = "open"
    /\ ~tun[t].clientEOF
    /\ Upd(t, [tun[t] EXCEPT !.clientEOF = TRUE])
    /\ UNCHANGED <<crashed, proc, disk, now, rq>>

ServerSend(t) ==
    /\ Live(t)
    /\ tun[t].connOut = "open"
    /\ ~tun[t].serverEOF
    /\ tun[t].ssent < tun[t].smax
    /\ Upd(t, [tun[t] EXCEPT !.ssent = @ + 1, !.sq = Append(@, tun[t].ssent + 1)])
    /\ UNCHANGED <<crashed, proc, disk, now, rq>>

ServerClose(t) ==
    /\ Live(t)
    /\ tun[t].connOut = "open"
    /\ ~tun[t].serverEOF
    /\ Upd(t, [tun[t] EXCEPT !.serverEOF = TRUE])
    /\ UNCHANGED <<crashed, proc, disk, now, rq>>

\* the upstream connection breaks: reads and writes on it fail from now on
ServerReset(t) ==
    /\ Live(t)
    /\ tun[t].connOut = "open"
    /\ Upd(t, [tun[t] EXCEPT !.connOut = "broken"])
    /\ UNCHANGED <<crashed, proc, disk, now, rq>>

\* a step of the tunnel's own code
TunnelStep(t) ==
    \/ Accept(t) \/ Dial(t) \/ RespondWrite(t) \/ RespondClose(t) \/ Spawn(t)
    \/ DecRead(t) \/ DecErrCloseOut(t) \/ DecErrWrite(t) \/ DecErrCloseIn(t)
    \/ DecWrite1(t) \/ DecWrite2(t) \/ DecPipe(t)
    \/ \E k \in Pipes :
          \/ CopyInRead(t, k) \/ CopyInWrite(t, k) \/ CopyInClose(t, k)
          \/ CopyOutRead(t, k) \/ CopyOutWrite(t, k) \/ CopyOutClose(t, k)

\* a step of one of the tunnel's peers
PeerStep(t) ==
    \/ \E kind \in ItemKinds : ClientSend(t, kind)
    \/ ClientClose(t) \/ ServerSend(t) \/ ServerClose(t) \/ ServerReset(t)

(***************************************************************************)
(* Certificate bootstrap: state                                            *)
(***************************************************************************)
\* time is counted in months
ONE_MONTH == 1
ONE_YEAR == 12
TEN_YEARS == 120

\* how far the clock may move between two runs of the process
TimeSteps == {1, 11, 108}
\* clock moves, and starts of the process, in one behaviour
MaxTicks == 3
MaxRuns == 2

\* what time.Now().Nanosecond() may return at a call of certificateFor: the
\* nanoseconds within the clock's current second, 0 to 999999999
Nanoseconds == {0, 999999999}
\* the host part of the -addr flag, strings.Split(*addr, ":")[0] (line 111)
Hostnames == {"a.example", "b.example"}

NoCert ==
    [ id |-> 0, serial |-> 0, subject |-> "", key |-> 0, issuer |-> 0, notBefore |-> 0,
      notAfter |-> 0, isCA |-> FALSE, keyUsage |-> {}, extKeyUsage |-> {} ]

\* a process that is not running; runs counts the starts so far
ProcOff(runs) ==
    [ pc |-> "off", runs |-> runs,
      isDownstream |-> FALSE,
      ONE_MONTH_FROM_TODAY |-> 0, ONE_YEAR_FROM_TODAY |-> 0, TEN_YEARS_FROM_TODAY |-> 0,
      pk |-> 0, caCert |-> NoCert, serverCert |-> NoCert, err |-> "nil",
      \* mitmProxy (line 73): whether it was built after initCerts returned,
      \* and the key and CA certificate it read from the two files
      mitmProxy |-> [afterInit |-> FALSE, pk |-> 0, ca |-> NoCert],
      host |-> "",             \* initCerts' argument
      listening |-> FALSE,     \* the listener accepts connections
      trusted0 |-> {},         \* the trust store as the run found it
      rebuilt |-> FALSE,       \* main has called buildMitmProxy() (line 116)
      \* what this run of initCerts has done so far
      pkGen |-> FALSE, caGen |-> FALSE, srvGen |-> FALSE,
      caLoaded |-> NoCert, srvLoaded |-> NoCert,
      caWrites |-> 0, trustAdds |-> 0, caDone |-> FALSE ]

\* the three files (0 / NoCert: absent or unreadable), the user's trust store,
\* and the next unused key and certificate identities
DiskEmpty ==
    [ pk |-> 0, ca |-> NoCert, srv |-> NoCert, trusted |-> {},
      nextKey |-> 1, nextCert |-> 1,
      \* the environment: what the clock's nanoseconds read when a certificate
      \* is made, and the hosts the -addr flag names
      nanos |-> {0}, hosts |-> {"a.example"},
      ticks |-> 0 ]   \* clock moves so far

ProcIdle == ProcOff(0)
DiskIdle == DiskEmpty
RqIdle == [stage |-> "none"]

isUpstream == ~proc.isDownstream

\* certificateFor(name, validUntil, isCA, issuer), lines 303-329; id is the
\* identity of the certificate made, issuer = NoCert stands for nil, nano is
\* what time.Now().Nanosecond() returns at line 309.  The certificate is made
\* with the process's key pk in both cases.
certificateFor(name, validUntil, isCA, issuer, id, nano) ==
    [ id          |-> id,
      serial      |-> nano,
      subject     |-> name,
      key         |-> proc.pk,
      issuer      |-> IF issuer = NoCert THEN id ELSE issuer.id,
      notBefore   |-> now - ONE_MONTH,
      notAfter    |-> validUntil,
      isCA        |-> (issuer = NoCert),
      keyUsage    |-> IF issuer = NoCert /\ isCA
                        THEN {"KeyEncipherment", "DigitalSignature", "CertSign"}
                        ELSE {"KeyEncipherment", "DigitalSignature"},
      extKeyUsage |-> IF issuer = NoCert THEN {"ServerAuth"} ELSE {} ]

\* cert.X509().NotAfter.Before(ONE_MONTH_FROM_TODAY)
AboutToExpire_alreadyExpired(cert) == cert.notAfter < proc.ONE_MONTH_FROM_TODAY - ONE_MONTH

AboutToExpire(cert) == cert.notAfter < proc.ONE_MONTH_FROM_TODAY

(***************************************************************************)
(* Certificate bootstrap: the process, main and initCerts                  *)
(***************************************************************************)
\* buildMitmProxy, lines 148-154: mitm.NewProxy(PK_FILE, CA_CERT_FILE) is
\* given the two files and reads them as they are when it is called (a file
\* that is absent gives it nothing initCerts has made).
buildMitmProxy(afterInit) ==
    [afterInit |-> afterInit, pk |-> disk.pk, ca |-> disk.ca]

\* The process starts: the package-level variables are initialised (lines
\* 52-77), mitmProxy among them, and main calls initCerts.  The role comes
\* from the -server flag.  buildMitmProxy ends the process when NewProxy
\* returns an error.
Start ==
    /\ proc.pc = "off"
    /\ proc.runs < MaxRuns
    /\ \E down \in BOOLEAN, built \in BOOLEAN, host \in disk.hosts :
         proc' = [ProcOff(proc.runs + 1) EXCEPT
                    !.pc = IF built THEN "loadPK" ELSE "exited",
                    !.isDownstream = down,
                    !.host = host,
                    !.trusted0 = disk.trusted,
                    !.ONE_MONTH_FROM_TODAY = now + ONE_MONTH,
                    !.ONE_YEAR_FROM_TODAY = now + ONE_YEAR,
                    !.TEN_YEARS_FROM_TODAY = now + TEN_YEARS,
                    !.mitmProxy = IF built THEN buildMitmProxy(FALSE) ELSE @]
    /\ UNCHANGED <<tun, crashed, disk, now, rq>>

\* pk, err = keyman.LoadPKFromFile(PK_FILE)
LoadPK ==
    /\ proc.pc = "loadPK"
    /\ proc' = IF disk.pk # 0
                 THEN [proc EXCEPT !.pk = disk.pk, !.pc = "loadCA"]
                 ELSE [proc EXCEPT !.pc = "genPK"]
    /\ UNCHANGED <<tun, crashed, disk, now, rq>>

\* pk, err = keyman.GeneratePK(2048)
GenPK ==
    /\ proc.pc = "genPK"
    /\ \E ok \in BOOLEAN :
         IF ok
           THEN /\ proc' = [proc EXCEPT !.pk = disk.nextKey, !.pkGen = TRUE,
                                        !.pc = "writePK"]
                /\ disk' = [disk EXCEPT !.nextKey = @ + 1]
           ELSE /\ proc' = [proc EXCEPT !.err = "GeneratePK", !.pc = "returned"]
                /\ UNCHANGED disk
    /\ UNCHANGED <<tun, crashed, now, rq>>

\* err = pk.WriteToFile(PK_FILE)
WritePK ==
    /\ proc.pc = "writePK"
    /\ \E ok \in BOOLEAN :
         IF ok
           THEN /\ disk' = [disk EXCEPT !.pk = proc.pk]
                /\ proc' = [proc EXCEPT !.pc = "loadCA"]
           ELSE /\ proc' = [proc EXCEPT !.err = "WritePK", !.pc = "returned"]
                /\ UNCHANGED disk
    /\ UNCHANGED <<tun, crashed, now, rq>>

\* where initCerts goes once the CA certificate is in place (line 285)
AfterCA == IF isUpstream THEN "loadSrv" ELSE "returned"

\* caCert, err = keyman.LoadCertificateFromFile(CA_CERT_FILE)
\* if err != nil || caCert.X509().NotAfter.Before(ONE_MONTH_FROM_TODAY)
LoadCA ==
    /\ proc.pc = "loadCA"
    /\ proc' = IF disk.ca = NoCert \/ AboutToExpire(disk.ca)
                 THEN [proc EXCEPT !.caCert = disk.ca, !.caLoaded = disk.ca,
                                   !.pc = "genCA"]
                 ELSE [proc EXCEPT !.caCert = disk.ca, !.caLoaded = disk.ca,
                                   !.caDone = TRUE, !.pc = AfterCA]
    /\ UNCHANGED <<tun, crashed, disk, now, rq>>

\* caCert, err = certificateFor("Lantern", TEN_YEARS_FROM_TODAY, true, nil)
GenCA ==
    /\ proc.pc = "genCA"
    /\ \E ok \in BOOLEAN, nano \in disk.nanos :
         IF ok
           THEN /\ proc' = [proc EXCEPT
                              !.caCert = certificateFor("Lantern", proc.TEN_YEARS_FROM_TODAY,
                                                        TRUE, NoCert, disk.nextCert, nano),
                              !.caGen = TRUE, !.pc = "writeCA"]
                /\ disk' = [disk EXCEPT !.nextCert = @ + 1]
           ELSE /\ proc' = [proc EXCEPT !.caCert = NoCert, !.err = "certificateFor",
                                        !.pc = "returned"]
                /\ UNCHANGED disk
    /\ UNCHANGED <<tun, crashed, now, rq>>

\* line 277: if isDownstream, the new CA certificate goes to the trust store
InstallsTrust_anyRole == TRUE

InstallsTrust == proc.isDownstream

\* err = caCert.WriteToFile(CA_CERT_FILE)
WriteCA ==
    /\ proc.pc = "writeCA"
    /\ \E ok \in BOOLEAN :
         IF ok
           THEN /\ disk' = [disk EXCEPT !.ca = proc.caCert]
                /\ proc' = [proc EXCEPT
                              !.caWrites = @ + 1,
                              !.caDone = ~InstallsTrust,
                              !.pc = IF InstallsTrust THEN "trustCA" ELSE AfterCA]
           ELSE /\ proc' = [proc EXCEPT !.err = "WriteCA", !.pc = "returned"]
                /\ UNCHANGED disk
    /\ UNCHANGED <<tun, crashed, now, rq>>

\* if isDownstream { err = caCert.AddAsTrustedRoot() }
TrustCA ==
    /\ proc.pc = "trustCA"
    /\ \E ok \in BOOLEAN :
         IF ok
           THEN /\ disk' = [disk EXCEPT !.trusted = @ \cup {proc.caCert.id}]
                /\ proc' = [proc EXCEPT !.trustAdds = @ + 1, !.caDone = TRUE,
                                        !.pc = AfterCA]
           ELSE /\ proc' = [proc EXCEPT !.err = "AddAsTrustedRoot", !.pc = "returned"]
                /\ UNCHANGED disk
    /\ UNCHANGED <<tun, crashed, now, rq>>

\* serverCert, err = keyman.LoadCertificateFromFile(SERVER_CERT_FILE)
\* if err != nil || caCert.X509().NotAfter.Before(ONE_MONTH_FROM_TODAY)
LoadSrv ==
    /\ proc.pc = "loadSrv"
    /\ proc' = IF disk.srv = NoCert \/ AboutToExpire(proc.caCert)
                 THEN [proc EXCEPT !.serverCert = disk.srv, !.srvLoaded = disk.srv,
                                   !.pc = "genSrv"]
                 ELSE [proc EXCEPT !.serverCert = disk.srv, !.srvLoaded = disk.srv,
                                   !.pc = "returned"]
    /\ UNCHANGED <<tun, crashed, disk, now, rq>>

\* serverCert, err = certificateFor(host, ONE_YEAR_FROM_TODAY, true, caCert)
GenSrv ==
    /\ proc.pc = "genSrv"
    /\ \E ok \in BOOLEAN, nano \in disk.nanos :
         IF ok
           THEN /\ proc' = [proc EXCEPT
                              !.serverCert = certificateFor(proc.host, proc.ONE_YEAR_FROM_TODAY,
                                                            TRUE, proc.caCert, disk.nextCert, nano),
                              !.srvGen = TRUE, !.pc = "writeSrv"]
                /\ disk' = [disk EXCEPT !.nextCert = @ + 1]
           ELSE /\ proc' = [proc EXCEPT !.serverCert = NoCert, !.err = "certificateFor",
                                        !.pc = "returned"]
                /\ UNCHANGED disk
    /\ UNCHANGED <<tun, crashed, now, rq>>

\* err = serverCert.WriteToFile(SERVER_CERT_FILE); return
WriteSrv ==
    /\ proc.pc = "writeSrv"
    /\ \E ok \in BOOLEAN :
         IF ok
           THEN /\ disk' = [disk EXCEPT !.srv = proc.serverCert]
                /\ proc' = [proc EXCEPT !.pc = "returned"]
           ELSE /\ proc' = [proc EXCEPT !.err = "WriteSrv", !.pc = "returned"]
                /\ UNCHANGED disk
    /\ UNCHANGED <<tun, crashed, now, rq>>

\* main, lines 111-119: log.Fatalf on an error, else runClient() or
\* runServer(), which start the listener's goroutine
MainAfterInit_ignoreErr ==
    /\ proc.pc = "returned"
    /\ proc' = [proc EXCEPT !.pc = "serving"]
    /\ UNCHANGED <<tun, crashed, disk, now, rq>>

MainAfterInit ==
    /\ proc.pc = "returned"
    /\ proc' = [proc EXCEPT !.pc = IF proc.err # "nil" THEN "exited" ELSE "serving"]
    /\ UNCHANGED <<tun, crashed, disk, now, rq>>

\* tls.LoadX509KeyPair(SERVER_CERT_FILE, PK_FILE) inside ListenAndServeTLS:
\* both files are read, and the certificate must belong to the key
KeyPairLoads ==
    /\ disk.pk # 0
    /\ disk.srv # NoCert
    /\ disk.srv.key = disk.pk

\* the listener's goroutine, lines 136-142 and 172-179: ListenAndServe in the
\* client role, ListenAndServeTLS in the server role; log.Fatalf when it
\* returns an error
Listen ==
    /\ proc.pc = "serving"
    /\ ~proc.listening
    /\ \E bound \in BOOLEAN :
         proc' = IF bound /\ (proc.isDownstream \/ KeyPairLoads)
                   THEN [proc EXCEPT !.listening = TRUE]
                   ELSE [proc EXCEPT !.pc = "exited"]
    /\ UNCHANGED <<tun, crashed, disk, now, rq>>

\* main, line 116: in the client role buildMitmProxy() is called once more
\* after runClient(), and what it returns is dropped
MainBuildMitm ==
    /\ proc.pc = "serving"
    /\ proc.isDownstream
    /\ ~proc.rebuilt
    /\ \E built \in BOOLEAN :
         proc' = IF built THEN [proc EXCEPT !.rebuilt = TRUE]
                          ELSE [proc EXCEPT !.pc = "exited", !.listening = FALSE]
    /\ UNCHANGED <<tun, crashed, disk, now, rq>>

\* the process ends; what it held in memory is gone
Stop ==
    /\ proc.pc \in {"serving", "exited"}
    /\ proc' = ProcOff(proc.runs)
    /\ UNCHANGED <<tun, crashed, disk, now, rq>>

\* time passes between two runs
Tick ==
    /\ proc.pc = "off"
    /\ disk.ticks < MaxTicks
    /\ \E d \in TimeSteps : now' = now + d
    /\ disk' = [disk EXCEPT !.ticks = @ + 1]
    /\ UNCHANGED <<tun, crashed, proc, rq>>

\* between two runs a persisted file is removed or made unreadable
LoseFile ==
    /\ proc.pc = "off"
    /\ \E f \in {"pk", "ca", "srv"} :
         /\ disk[f] # DiskEmpty[f]
         /\ disk' = [disk EXCEPT ![f] = DiskEmpty[f]]
    /\ UNCHANGED <<tun, crashed, proc, now, rq>>

InitCerts ==
    /\ tun = [t \in Tunnels |-> TunnelInit(0, 0, FALSE)]
    /\ crashed = FALSE
    /\ proc = ProcOff(0)
    /\ disk = DiskEmpty
    /\ now = 0
    /\ rq = RqIdle

NextCerts ==
    \/ Start \/ LoadPK \/ GenPK \/ WritePK
    \/ LoadCA \/ GenCA \/ WriteCA \/ TrustCA
    \/ LoadSrv \/ GenSrv \/ WriteSrv
    \/ MainAfterInit \/ Listen \/ MainBuildMitm \/ Stop \/ Tick \/ LoseFile

SpecCerts == InitCerts /\ [][NextCerts]_vars

\* the same process where the clock's nanoseconds and the -addr host vary
InitIssue ==
    /\ tun = [t \in Tunnels |-> TunnelInit(0, 0, FALSE)]
    /\ crashed = FALSE
    /\ proc = ProcOff(0)
    /\ disk = [DiskEmpty EXCEPT !.nanos = Nanoseconds, !.hosts = Hostnames]
    /\ now = 0
    /\ rq = RqIdle

SpecIssue == InitIssue /\ [][NextCerts]_vars


\* one tunnel, with the full budgets
InitTunnel ==
    /\ tun = [t \in Tunnels |->
                IF t = "t1" THEN TunnelInit(MaxClientItems, MaxServerItems, TRUE)
                            ELSE TunnelInit(0, 0, FALSE)]
    /\ crashed = FALSE
    /\ proc = ProcIdle
    /\ disk = DiskIdle
    /\ now = 0
    /\ rq = RqIdle

NextTunnel == \E t \in Tunnels : TunnelStep(t) \/ PeerStep(t)

SpecTunnel == InitTunnel /\ [][NextTunnel]_vars

\* two tunnels side by side in one process
InitTunnels ==
    /\ tun = [t \in Tunnels |->
                IF t = "t1" THEN TunnelInit(MaxClientItems, MaxServerItems, TRUE)
                            ELSE TunnelInit(PairClientItems, PairServerItems, TRUE)]
    /\ crashed = FALSE
    /\ proc = ProcIdle
    /\ disk = DiskIdle
    /\ now = 0
    /\ rq = RqIdle

SpecTunnels == InitTunnels /\ [][NextTunnel]_vars

(***************************************************************************)
(* Disguise protocol                                                       *)
(***************************************************************************)
X_LANTERN_HOST_clash == "X-Lantern-Scheme"

X_LANTERN_HOST == "X-Lantern-Host"
X_LANTERN_SCHEME == "X-Lantern-Scheme"

HeaderNames == {X_LANTERN_HOST, X_LANTERN_SCHEME, "User-Agent"}
\* "" is a header that is absent (what Header.Get returns for it)
HeaderValues == {"", "stale"}

Hosts == {"origin.example", "other.example:8443", "10.0.0.1"}
Schemes == {"http", "https"}

\* -server, and the values of -masquerade ("" when the flag is not given)
upstreamHost == "frontend.example"
Masquerades == {"", "masq.example"}

\* cp.rewrite: the true host and scheme, taken from the request's URL, go into
\* the disguise headers; the URL authority becomes the front-end host and the
\* Host header the masquerade host when one is configured.
ClientRewrite(req, masq) ==
    LET h1 == [req.hdr EXCEPT ![X_LANTERN_HOST] = req.urlHost]
        h2 == [h1 EXCEPT ![X_LANTERN_SCHEME] = req.scheme]
    IN [req EXCEPT !.hdr = h2,
                   !.urlHost = upstreamHost,
                   !.host = IF masq # "" THEN masq ELSE upstreamHost]

\* The request as the server role receives it: req.Write puts the path, the
\* Host header and the headers on the wire, and the server's parser builds a
\* request whose URL carries neither scheme nor host.
Wire(req) ==
    [req EXCEPT !.scheme = "", !.urlHost = "",
                !.host = IF req.host # "" THEN req.host ELSE req.urlHost]

\* sp.rewrite: without the disguise headers the request is left as it is;
\* with them the URL gets the true scheme and host and the headers are removed.
ServerRewrite(req) ==
    IF req.hdr[X_LANTERN_HOST] = "" \/ req.hdr[X_LANTERN_SCHEME] = ""
      THEN req
      ELSE [req EXCEPT !.scheme = req.hdr[X_LANTERN_SCHEME],
                       !.urlHost = req.hdr[X_LANTERN_HOST],
                       !.host = req.hdr[X_LANTERN_HOST],
                       !.hdr = [n \in DOMAIN req.hdr |->
                                  IF n \in {X_LANTERN_HOST, X_LANTERN_SCHEME}
                                    THEN "" ELSE req.hdr[n]]]

\* The targets of CONNECT requests: the host and the port the client named,
\* and parts, what strings.Split(addr, ":") returns for the addr "host:port"
\* that handleClientMITM is given.
ConnectTargets ==
    { [host |-> "origin.example", port |-> "443", parts |-> <<"origin.example", "443">>],
      [host |-> "origin.example", port |-> "8443", parts |-> <<"origin.example", "8443">>],
      [host |-> "[::1]", port |-> "443", parts |-> <<"[", "", "1]", "443">>] }

\* a request that did not come through a CONNECT tunnel
NoTarget == [host |-> "", port |-> "", parts |-> << >>]

\* Either a request of the local client for host H with scheme S, with
\* whatever headers it came with, which goes to reverseProxy; or a request
\* that serverConn.Read() has decoded on the tunnel of a CONNECT request: its
\* URL has no scheme and no host yet.
InitRewrite ==
    /\ tun = [t \in Tunnels |-> TunnelInit(0, 0, FALSE)]
    /\ crashed = FALSE
    /\ proc = ProcIdle
    /\ disk = DiskIdle
    /\ now = 0
    /\ \E masq \in Masquerades, hdr \in [HeaderNames -> HeaderValues] :
         \/ \E H \in Hosts, S \in Schemes :
               rq = [ stage |-> "orig", addr |-> NoTarget,
                      trueHost |-> H, trueScheme |-> S, masq |-> masq,
                      req |-> [scheme |-> S, urlHost |-> H, host |-> H, hdr |-> hdr] ]
         \/ \E a \in ConnectTargets :
               rq = [ stage |-> "decoded", addr |-> a,
                      trueHost |-> "", trueScheme |-> "", masq |-> masq,
                      req |-> [scheme |-> "", urlHost |-> "", host |-> a.host,
                               hdr |-> hdr] ]

\* handleClientMITM, lines 213-214: req.URL.Scheme = "https" and
\* req.URL.Host = strings.Split(addr, ":")[0]
DoDecode ==
    /\ rq.stage = "decoded"
    /\ rq' = [rq EXCEPT !.req.scheme = "https",
                        !.req.urlHost = rq.addr.parts[1],
                        !.trueScheme = "https",
                        !.trueHost = rq.addr.parts[1],
                        !.stage = "orig"]
    /\ UNCHANGED <<tun, crashed, proc, disk, now>>

\* the client role's Director (line 65, line 217)
DoClientRewrite ==
    /\ rq.stage = "orig"
    /\ rq' = [rq EXCEPT !.req = ClientRewrite(rq.req, rq.masq), !.stage = "client"]
    /\ UNCHANGED <<tun, crashed, proc, disk, now>>

\* the request travels to the server role (line 220, lines 160-170)
DoTransmit ==
    /\ rq.stage = "client"
    /\ rq' = [rq EXCEPT !.req = Wire(rq.req), !.stage = "wire"]
    /\ UNCHANGED <<tun, crashed, proc, disk, now>>

\* the server role's Director (lines 163-166)
DoServerRewrite ==
    /\ rq.stage = "wire"
    /\ rq' = [rq EXCEPT !.req = ServerRewrite(rq.req), !.stage = "server"]
    /\ UNCHANGED <<tun, crashed, proc, disk, now>>

NextRewrite == DoDecode \/ DoClientRewrite \/ DoTransmit \/ DoServerRewrite

SpecRewrite == InitRewrite /\ [][NextRewrite]_vars

(***************************************************************************)
(* Interception tunnel: properties                                         *)
(***************************************************************************)
Established(t) == tun[t].connOut \notin {"none", "nil"}

InClosed(t) == tun[t].connIn \in {"closed", "killed"}
OutClosed(t) == tun[t].connOut \in {"closed", "killed"}

Got502(t) == \E i \in 1..Len(tun[t].localOut) : tun[t].localOut[i] = "502"

\* no goroutine of the tunnel is still running or blocked
NoTaskLeft(t) ==
    /\ tun[t].dpc \in {"none", "done"}
    /\ \A k \in Pipes : /\ tun[t].apc[k] \in {"none", "done"}
                        /\ tun[t].bpc[k] \in {"none", "done"}

\* C1: fail-closed on dial failure.  In every tunnel whose upstream dial
\* failed, the local connection is no longer open only after it has received
\* the 502 Bad Gateway line.
C1_FailClosed ==
    \A t \in Tunnels :
        (tun[t].dialFailed /\ tun[t].connIn # "open") => Got502(t)

\* C2: close propagation.  In a tunnel whose upstream connection was
\* established, once either peer has closed or the upstream connection has
\* failed, and the tunnel's own code can take no further step while the peers
\* stay idle, both connections are closed and no goroutine is left blocked.
C2_ClosePropagation ==
    \A t \in Tunnels :
        ( /\ Established(t)
          /\ tun[t].clientEOF \/ tun[t].serverEOF \/ tun[t].connOut = "broken"
          /\ ~ENABLED TunnelStep(t) )
        => (InClosed(t) /\ OutClosed(t) /\ NoTaskLeft(t))

\* C3: tunnel ordering.  What has been written to the upstream connection
\* begins with the whole rewritten first request: every byte copied by the
\* relay comes after both parts of it.
C3_TunnelOrdering ==
    \A t \in Tunnels :
        LET u == tun[t].upstream IN
        /\ Len(u) >= 1 => u[1] = [w |-> "rwHead", id |-> 1]
        /\ Len(u) >= 2 => u[2] = [w |-> "rwTail", id |-> 1]
        /\ \A i \in 1..Len(u) : u[i].w = "raw" => i > 2

\* C3's case: the relay has copied a chunk after the first request.
C3_Witness ==
    \E t \in Tunnels :
        /\ Len(tun[t].upstream) >= 3
        /\ tun[t].upstream[3].w = "raw"

\* C4: failure isolation.  No per-tunnel failure terminates the process (and
\* with it every other tunnel), and a tunnel that has reported failure uses
\* neither of its connections again.
C4_FailureIsolation ==
    /\ ~crashed
    /\ \A t \in Tunnels : ~tun[t].opAfterFail

\* C5: relay is entered once and is opaque.  pipe() is called at most once per
\* tunnel; after it the decode loop holds no further decoded request; and
\* everything on the upstream connection after the first request was written
\* by the relay's copy goroutine.
C5_RelayOnce ==
    \A t \in Tunnels :
        /\ tun[t].npipes <= 1
        /\ tun[t].npipes >= 1 => tun[t].dpc \notin {"write1", "write2", "pipe"}
        /\ \A i \in 1..Len(tun[t].upstream) : i > 2 => tun[t].upstream[i].w = "raw"

\* the request with this id is held by a goroutine that has read it and not
\* yet written it
InFlight(t, i) ==
    \/ tun[t].dreq.id = i /\ tun[t].dpc \in {"write1", "write2"}
    \/ \E k \in Pipes : tun[t].abuf[k].id = i

Rewritten(t, i) ==
    /\ \E j \in 1..Len(tun[t].upstream) : tun[t].upstream[j] = [w |-> "rwHead", id |-> i]
    /\ \E j \in 1..Len(tun[t].upstream) : tun[t].upstream[j] = [w |-> "rwTail", id |-> i]

\* C6: every request is rewritten.  No HTTP request the client sent is on the
\* upstream connection as raw bytes, and while the upstream connection is open
\* every request that was read off the local connection and is no longer held
\* by its reader is there in its rewritten form.
C6_EveryRequestRewritten ==
    \A t \in Tunnels :
        /\ \A j \in 1..Len(tun[t].upstream) :
              tun[t].upstream[j].w = "raw"
                 => tun[t].ckinds[tun[t].upstream[j].id] # "req"
        /\ \A i \in 1..(tun[t].csent - Len(tun[t].cq)) :
              (tun[t].ckinds[i] = "req" /\ tun[t].connOut = "open" /\ ~InFlight(t, i))
                 => Rewritten(t, i)

InitCertsSucceeded == proc.pc = "serving"

\* C8: server-certificate issuer.  In the server role, after initCerts has
\* returned successfully the server certificate in memory was issued by the
\* CA certificate in memory, and a run that made a new CA certificate made a
\* new server certificate too.
C8_ServerIssuer ==
    (InitCertsSucceeded /\ isUpstream) =>
        /\ proc.serverCert.issuer = proc.caCert.id
        /\ proc.caGen => proc.srvGen

\* C9: expiry-triggered CA regeneration.  When the CA file was loadable: if
\* its not-after is less than one month away, then once initCerts is past the
\* CA block a new CA certificate, valid for ten years from now, is in memory
\* and in the CA file; if its not-after is more than one month away, the run
\* keeps that certificate, never writes the CA file and never touches the
\* trust store.
C9_CAExpiryRegeneration ==
    proc.caLoaded # NoCert =>
        /\ (proc.caLoaded.notAfter < now + ONE_MONTH /\ proc.caDone) =>
              /\ proc.caGen
              /\ proc.caCert.id # proc.caLoaded.id
              /\ proc.caCert.notAfter = now + TEN_YEARS
              /\ proc.caCert.notBefore = now - ONE_MONTH
              /\ proc.caCert.isCA
              /\ disk.ca = proc.caCert
        /\ proc.caLoaded.notAfter > now + ONE_MONTH =>
              /\ ~proc.caGen
              /\ proc.caCert = proc.caLoaded
              /\ disk.ca = proc.caLoaded
              /\ proc.caWrites = 0
              /\ proc.trustAdds = 0

\* C9's case: a run loaded a CA certificate with less than a month left,
\* and initCerts returned successfully.
C9_Witness ==
    /\ InitCertsSucceeded
    /\ proc.caLoaded # NoCert
    /\ proc.caLoaded.notAfter < now + ONE_MONTH
    /\ proc.caLoaded.notAfter >= now

\* C10: server-certificate renewal.  In the server role, after initCerts has
\* returned successfully with a loadable server certificate file: if that
\* certificate's not-after is less than one month away, a new server
\* certificate valid for one year is in memory and in the file; if it is more
\* than one month away and the CA was not regenerated, it is kept unchanged.
C10_ServerRenewal ==
    (InitCertsSucceeded /\ isUpstream /\ proc.srvLoaded # NoCert) =>
        /\ proc.srvLoaded.notAfter < now + ONE_MONTH =>
              /\ proc.srvGen
              /\ proc.serverCert.notAfter = now + ONE_YEAR
              /\ disk.srv = proc.serverCert
        /\ (proc.srvLoaded.notAfter > now + ONE_MONTH /\ ~proc.caGen) =>
              /\ ~proc.srvGen
              /\ proc.serverCert = proc.srvLoaded
              /\ disk.srv = proc.srvLoaded

\* C11: bootstrap is fatal on failure.  The listener accepts connections only
\* in a run whose initCerts returned nil with the key, the CA certificate and,
\* in the server role, the server certificate in memory and in their files;
\* a run in which a generation, a write or the trust-store installation
\* failed never listens and ends.
C11_BootstrapFatal ==
    /\ proc.listening =>
          /\ proc.pc = "serving"
          /\ proc.err = "nil"
          /\ proc.pk # 0 /\ disk.pk = proc.pk
          /\ proc.caCert # NoCert /\ disk.ca = proc.caCert
          /\ isUpstream => (proc.serverCert # NoCert /\ disk.srv = proc.serverCert)
    /\ proc.err # "nil" => (~proc.listening /\ proc.pc \in {"returned", "exited"})

\* C11's case: the server role's listener accepts connections after a run in
\* which initCerts generated the key and both certificates.
C11_Witness ==
    /\ proc.listening
    /\ isUpstream
    /\ proc.pkGen /\ proc.caGen /\ proc.srvGen

\* C12: credentials are committed before any handshake path reads them.  While
\* the client role serves, the MITM proxy that handleClient uses was built
\* after initCerts returned, and holds the key and the CA certificate that
\* initCerts left in memory.
C12_CredentialsCommittedFirst ==
    (proc.pc = "serving" /\ proc.isDownstream) =>
        /\ proc.mitmProxy.afterInit
        /\ proc.mitmProxy.pk = proc.pk
        /\ proc.mitmProxy.ca = proc.caCert

\* C13: trust-store installation is role-gated.  The server role leaves the
\* trust store as it found it.  The client role installs the CA certificate
\* exactly when this run generated it and wrote it to its file, and installs
\* that certificate; a failed installation makes initCerts return the error,
\* so a client run that generated a CA certificate and went on has it trusted.
C13_TrustStoreRoleGated ==
    proc.pc # "off" =>
        /\ isUpstream => (proc.trustAdds = 0 /\ disk.trusted = proc.trusted0
                          /\ proc.pc # "trustCA")
        /\ proc.trustAdds > 0 =>
              /\ proc.isDownstream /\ proc.caGen /\ proc.caWrites = 1
              /\ disk.ca = proc.caCert
              /\ disk.trusted = proc.trusted0 \cup {proc.caCert.id}
        /\ proc.trustAdds = 0 => disk.trusted = proc.trusted0
        /\ (proc.isDownstream /\ proc.caGen /\ proc.caDone) => proc.trustAdds = 1
        /\ (proc.isDownstream /\ ~proc.caGen) => proc.trustAdds = 0
        /\ proc.err = "AddAsTrustedRoot" =>
              (proc.isDownstream /\ proc.pc \in {"returned", "exited"})
        /\ (InitCertsSucceeded /\ proc.isDownstream /\ proc.caGen) =>
              proc.caCert.id \in disk.trusted

\* C13's case: a client run installed the CA certificate it generated, after
\* an earlier run had left another one in the trust store, and serves.
C13_Witness ==
    /\ proc.isDownstream
    /\ proc.trustAdds = 1
    /\ proc.trusted0 # {}
    /\ proc.listening

\* C14: serial numbers are unique.  The CA certificate and the server
\* certificate that one run of initCerts issues back to back have different
\* serial numbers, whatever the clock read at the two calls.
C14_SerialUnique ==
    (proc.caGen /\ proc.srvGen) => proc.caCert.serial # proc.serverCert.serial

\* C15: the server certificate initCerts issues is a leaf that is not a CA,
\* signed by the CA certificate, for the host name given to initCerts, valid
\* until one year from the start; its key usage is digital signature and key
\* encipherment and its extended key usage is server authentication.
C15_ServerCertAttributes ==
    proc.srvGen =>
        /\ ~proc.serverCert.isCA
        /\ proc.serverCert.issuer = proc.caCert.id
        /\ proc.serverCert.subject = proc.host
        /\ proc.serverCert.notAfter = proc.ONE_YEAR_FROM_TODAY
        /\ proc.serverCert.keyUsage = {"DigitalSignature", "KeyEncipherment"}
        /\ proc.serverCert.extKeyUsage = {"ServerAuth"}

\* C19: key and certificates belong together.  After initCerts returned nil,
\* the CA certificate and, in the server role, the server certificate were
\* made with the private key now loaded; a run that generated a new key also
\* generated the certificates anew.
C19_KeyCertConsistency ==
    InitCertsSucceeded =>
        /\ proc.caCert.key = proc.pk
        /\ isUpstream => proc.serverCert.key = proc.pk
        /\ proc.pkGen => (proc.caGen /\ (isUpstream => proc.srvGen))

\* C16: what the decode loop does when its read ends.  After a read that
\* failed with an error other than io.EOF, once the decode goroutine has
\* ended, the upstream connection has been closed, the 502 line has been
\* written to the local connection and the local connection has been closed.
\* After a read that ended with io.EOF no 502 line has been written.
C16_DecodeReadOutcomes ==
    \A t \in Tunnels :
        /\ (tun[t].dend = "err" /\ (tun[t].dpc = "done" \/ crashed)) =>
              /\ tun[t].closesOut >= 1 /\ OutClosed(t)
              /\ tun[t].wrote502
              /\ tun[t].closesIn >= 1 /\ InClosed(t)
        /\ tun[t].dend = "eof" => (~tun[t].wrote502 /\ ~Got502(t))

\* C17: a forwarding failure ends the tunnel.  After req.Write(connOut) has
\* failed, pipe() is not called, and once the decode goroutine is past the
\* write the local client has received the 502 line and the local connection
\* is closed.
C17_ForwardFailureEndsTunnel ==
    \A t \in Tunnels :
        /\ ~tun[t].relayAfterWfail
        /\ (tun[t].wfail /\ tun[t].dpc \notin {"write2", "pipe"}) =>
              (Got502(t) /\ InClosed(t))

\* C18: each connection is closed exactly once.  Neither connection's Close
\* is called twice, and once the handler has returned and every goroutine of
\* the tunnel has ended, each connection that exists has been closed once.
C18_ExactlyOnceClose ==
    \A t \in Tunnels :
        /\ tun[t].closesIn <= 1
        /\ tun[t].closesOut <= 1
        /\ (tun[t].hpc = "done" /\ NoTaskLeft(t)) =>
              /\ tun[t].closesIn = 1
              /\ Established(t) => tun[t].closesOut = 1

\* the port a URL without a port in its host names: the scheme's default
DefaultPort(scheme) == IF scheme = "https" THEN "443" ELSE "80"

\* C20: the decode loop keeps the destination.  A request decoded on the
\* tunnel of a CONNECT to host:port goes to the client rewrite with the URL
\* scheme https and a URL host that names the same host and the same port.
\* (The URL host set at line 214 never has a port of its own.)
C20_DestinationPreserved ==
    (rq.stage = "orig" /\ rq.addr # NoTarget) =>
        /\ rq.req.scheme = "https"
        /\ rq.req.urlHost = rq.addr.host
        /\ DefaultPort(rq.req.scheme) = rq.addr.port

====
